---- MODULE Spec2Model ----
(***************************************************************************)
(* A model of the discovery-dedup-fanout pipeline of magna-bot:            *)
(* main.js (dedup ledger, tiered discovery, group resolution, broadcast),  *)
(* group-manager.js (persisted group selection) and scheduler.js.          *)
(***************************************************************************)
EXTENDS Integers, Sequences, FiniteSets, TLC

(***************************************************************************)
(* Program constants and model bounds                                      *)
(***************************************************************************)

\* main.js:46  "if (postedRepos.length > 1000)"
CAPACITY == 1000

\* number of repository identities, beyond the pre-existing ledger records,
\* that the search provider can return
MaxFresh == 1

\* longest list of items handed to filterNewRepos in the ledger specification
MaxItems == 2

\* longest list of items a search returns in the broadcast specifications
\* (RESULTS_PER_KEYWORD, main.js:9, is the page size asked for)
MaxResults == 2

\* number of repositories the search provider knows in the broadcast
\* specifications
MaxRepo == 2

\* how many of the keywords of main.js:8 a broadcast goes through
NumKeywords == 2

\* how many invocations (scheduled broadcast, manual broadcast, ad-hoc
\* command) are in progress at a time in the interleaving specification
MaxConcurrent == 2

\* how many timeouts the scheduler may create in a behaviour
MaxTimers == 4

\* instants of the clock within one minute (Date has 60000 of them)
TicksPerMinute == 2

(***************************************************************************)
(* State                                                                   *)
(***************************************************************************)

VARIABLES
  postedReposFile,     \* posted-repos.json: [exists, postedRepos]
  selectedGroupsFile,  \* selected-groups.json: [exists, selectedGroups]
  groupsFile,          \* groups.json: [exists, groups]
  SELECTED_GROUPS,     \* main.js:12, read once from the environment
  run,                 \* the postToAllGroups invocations, by who started them
  cmd,                 \* the ad-hoc search command being handled
  scheduler,           \* the BotScheduler object (scheduler.js:5-14)
  timers,              \* the scheduler's timeouts and running callbacks
  last                 \* the last step taken: its inputs and what it returned

ledgerVars == <<postedReposFile, last>>

groupVars == <<selectedGroupsFile, groupsFile, SELECTED_GROUPS>>

taskVars == <<run, cmd>>

schedVars == <<scheduler, timers>>

vars == <<postedReposFile, selectedGroupsFile, groupsFile, SELECTED_GROUPS,
          run, cmd, scheduler, timers, last>>

(***************************************************************************)
(* Helpers                                                                 *)
(***************************************************************************)

Range(s) == {s[i] : i \in 1..Len(s)}

Ids(s) == {s[i].id : i \in 1..Len(s)}

\* number of elements of s whose id is id
CountId(s, id) == Cardinality({i \in 1..Len(s) : s[i].id = id})

\* postedRepos.find(r => r.id === id) / postedIds.has(id)
HasId(s, id) == \E i \in 1..Len(s) : s[i].id = id

\* sequences over S of length at most n without a repeated element
DistinctSeqs(S, n) ==
  {s \in UNION {[1..k -> S] : k \in 0..n} :
     \A i, j \in 1..Len(s) : i # j => s[i] # s[j]}

(***************************************************************************)
(* Dedup ledger (main.js:17-64)                                            *)
(***************************************************************************)

NoFile == [exists |-> FALSE, postedRepos |-> <<>>]

FileOf(recs) == [exists |-> TRUE, postedRepos |-> recs]

\* main.js:17-28.  readFails: readFileSync or JSON.parse throws; the catch
\* returns [].  existsSync false returns [] without reading.
getPostedRepos(file, readFails) ==
  IF file.exists
  THEN IF readFails THEN <<>> ELSE file.postedRepos
  ELSE <<>>

\* main.js:33-39
repoData(repo) == [id |-> repo.id, stars |-> repo.stargazers_count]

\* faulty variant of truncate: the comparison is off by one
truncate_OffByOne(postedRepos) ==
  IF Len(postedRepos) > CAPACITY + 1
  THEN SubSeq(postedRepos, Len(postedRepos) - CAPACITY + 1, Len(postedRepos))
  ELSE postedRepos

\* faulty variant of truncate: splice at the wrong end, dropping the newest
truncate_DropsNewest(postedRepos) ==
  IF Len(postedRepos) > CAPACITY
  THEN SubSeq(postedRepos, 1, CAPACITY)
  ELSE postedRepos

\* main.js:46-48  postedRepos.splice(0, postedRepos.length - 1000)
truncate(postedRepos) ==
  IF Len(postedRepos) > CAPACITY
  THEN SubSeq(postedRepos, Len(postedRepos) - CAPACITY + 1, Len(postedRepos))
  ELSE postedRepos

\* faulty variant of savePostedRepo: the file is written from the new record
\* alone instead of from what was read
savePostedRepo_Overwrites(file, repo, readFails, writeFails) ==
  LET postedRepos == getPostedRepos(file, readFails) IN
  IF ~HasId(postedRepos, repo.id)
  THEN IF writeFails THEN file
       ELSE FileOf(<<repoData(repo)>>)
  ELSE file

\* faulty variant of savePostedRepo: no check for an existing record
savePostedRepo_NoCheck(file, repo, readFails, writeFails) ==
  LET postedRepos == getPostedRepos(file, readFails) IN
  IF writeFails THEN file
  ELSE FileOf(truncate(Append(postedRepos, repoData(repo))))

\* main.js:30-58.  writeFails: writeFileSync throws; the catch leaves the
\* file as it was.
savePostedRepo(file, repo, readFails, writeFails) ==
  LET postedRepos == getPostedRepos(file, readFails) IN
  IF ~HasId(postedRepos, repo.id)
  THEN IF writeFails THEN file
       ELSE FileOf(truncate(Append(postedRepos, repoData(repo))))
  ELSE file

\* whether savePostedRepo reaches writeFileSync (main.js:42, 50)
attemptsWrite(file, repo, readFails) ==
  ~HasId(getPostedRepos(file, readFails), repo.id)

\* faulty variant of filterNewRepos: the test is applied to the full name
\* instead of the id, so nothing is recognised as posted
filterNewRepos_NoMatch(file, repos, readFails) ==
  repos

\* main.js:60-64
filterNewRepos(file, repos, readFails) ==
  LET postedRepos == getPostedRepos(file, readFails)
      notPosted(repo) == ~HasId(postedRepos, repo.id)
  IN  SelectSeq(repos, notPosted)

\* main.js:450-462 (!clearrepohistory).  unlinkFails: unlinkSync throws and
\* the catch leaves the file in place.
clearRepoHistory(file, unlinkFails) ==
  IF file.exists /\ ~unlinkFails THEN NoFile ELSE file

(***************************************************************************)
(* Steps and tasks                                                         *)
(***************************************************************************)

\* what a step did: the operation, who ran it, the search tier, the items it
\* was given, whether the awaited call failed, whether the ledger read or
\* write failed, and what it returned
Event(op, who, tier, items, failed, readFails, writeFails, out) ==
  [op |-> op, who |-> who, tier |-> tier, items |-> items, failed |-> failed,
   readFails |-> readFails, writeFails |-> writeFails, out |-> out]

NoOp == Event("init", "none", "none", <<>>, FALSE, FALSE, FALSE, <<>>)

\* scheduler.js:90 (executePost) and scheduler.js:106 / main.js:255, 265
Runs == {"sched", "manual"}

\* main.js:140-142, 174-175: the argument and the locals of a postToAllGroups
\* invocation, the identities it has delivered so far and those of them it
\* delivered to the groups before the current one
IdleRun ==
  [pc |-> "idle", selectedGroupIds |-> <<>>, groupIds |-> <<>>, g |-> 0, k |-> 0,
   reposToPost |-> <<>>, successCount |-> 0, errorCount |-> 0, delivered |-> {},
   earlier |-> {}]

\* what an invocation that returned reports (main.js:170, 224, 226)
Report(rs, result) ==
  <<[result |-> result, groupIds |-> rs.groupIds,
     successCount |-> rs.successCount, errorCount |-> rs.errorCount]>>

\* main.js:301-427, 464-508: the locals of an ad-hoc search handler
IdleCmd == [pc |-> "idle", kind |-> "none", loop |-> FALSE, k |-> 0, items |-> <<>>]

\* scheduler.js:5-14: the constructor (intervalId is never assigned a timer
\* and is left out)
BotScheduler(autoPostEnabled) ==
  [autoPostEnabled |-> autoPostEnabled, client |-> FALSE, isRunning |-> FALSE,
   timeoutId |-> 0]

\* no timeout created yet (timer identities are 1, 2, ...; 0 stands for
\* null); executing: the invocations awaited by timer callbacks
NoTimers == [pending |-> {}, executing |-> {}, created |-> 0]

\* a scheduler that is constructed and never started
SchedulerUnused == scheduler = BotScheduler(FALSE) /\ timers = NoTimers

\* no invocation in progress, nothing delivered, no group configuration
InitIdle ==
  /\ selectedGroupsFile = [exists |-> FALSE, selectedGroups |-> <<>>]
  /\ groupsFile = [exists |-> FALSE, groups |-> <<>>]
  /\ SELECTED_GROUPS = <<>>
  /\ run = [r \in Runs |-> IdleRun]
  /\ cmd = IdleCmd
  /\ SchedulerUnused

(***************************************************************************)
(* Ledger specification: the ledger operations applied to bounded inputs   *)
(***************************************************************************)

\* the ledger after n records with identities 1..n were inserted in order
Prefill(n) == [i \in 1..n |-> [id |-> i, stars |-> 1]]

LedgerSizes == {0, 1, CAPACITY - 1, CAPACITY}

Repo(i, s) == [id |-> i, stargazers_count |-> s]

\* identities the operations are called with: the oldest one of a prefilled
\* ledger and MaxFresh fresh ones
ItemIds == {1} \cup (CAPACITY + 1 .. CAPACITY + MaxFresh)

\* the oldest repository is also reported with a star count other than the
\* recorded one
LedgerItems == {Repo(i, 1) : i \in ItemIds} \cup {Repo(1, 2)}

\* search results handed to filterNewRepos: no repository twice
FilterInputs == DistinctSeqs({Repo(i, 1) : i \in ItemIds}, MaxItems)

InitLedger ==
  /\ postedReposFile \in {NoFile} \cup {FileOf(Prefill(n)) : n \in LedgerSizes}
  /\ last = NoOp
  /\ InitIdle

RecordCall(repo, readFails, writeFails) ==
  /\ readFails => postedReposFile.exists
  /\ writeFails => attemptsWrite(postedReposFile, repo, readFails)
  /\ postedReposFile' = savePostedRepo(postedReposFile, repo, readFails, writeFails)
  /\ last' = Event("record", "none", "none", <<repo>>, FALSE, readFails, writeFails, <<>>)
  /\ UNCHANGED <<schedVars, groupVars, taskVars>>

FilterCall(repos, readFails) ==
  /\ readFails => postedReposFile.exists
  /\ postedReposFile' = postedReposFile
  /\ last' = Event("filter", "none", "none", repos, FALSE, readFails, FALSE,
                   filterNewRepos(postedReposFile, repos, readFails))
  /\ UNCHANGED <<schedVars, groupVars, taskVars>>

ClearCall(unlinkFails) ==
  /\ unlinkFails => postedReposFile.exists
  /\ postedReposFile' = clearRepoHistory(postedReposFile, unlinkFails)
  /\ last' = Event("clear", "none", "none", <<>>, FALSE, FALSE, unlinkFails, <<>>)
  /\ UNCHANGED <<schedVars, groupVars, taskVars>>

NextLedger ==
  \/ \E repo \in LedgerItems, rf \in BOOLEAN, wf \in BOOLEAN : RecordCall(repo, rf, wf)
  \/ \E repos \in FilterInputs, rf \in BOOLEAN : FilterCall(repos, rf)
  \/ \E uf \in BOOLEAN : ClearCall(uf)

SpecLedger == InitLedger /\ [][NextLedger]_vars

(***************************************************************************)
(* Properties of the ledger operations (checked under SpecLedger)          *)
(***************************************************************************)

ledger == postedReposFile.postedRepos

\* s is an initial segment of t
IsPrefix(s, t) == Len(s) <= Len(t) /\ \A i \in 1..Len(s) : s[i] = t[i]

\* the items of repos whose identity is not in recs, in input order
Unposted(repos, recs) ==
  LET keep(repo) == repo.id \notin Ids(recs) IN SelectSeq(repos, keep)

\* C2: two successive record calls for one identity leave exactly one record
\* with that identity, and the second call leaves the ledger unchanged.
C2_RecordTwice ==
  [][(last.op = "record" /\ last'.op = "record"
        /\ last'.items[1].id = last.items[1].id)
     => /\ postedReposFile' = postedReposFile
        /\ CountId(ledger', last'.items[1].id) = 1]_vars

\* C4 as stated: every filterNewRepos call returns exactly the input items
\* whose identity is not in the ledger, in input order, and leaves the
\* ledger unchanged.
C4_FilterExact ==
  [][last'.op = "filter"
     => /\ last'.out = Unposted(last'.items, ledger)
        /\ postedReposFile' = postedReposFile]_vars

\* C4 amended: a filterNewRepos call whose ledger read succeeds returns
\* exactly the input items whose identity is not in the ledger, in input
\* order; a call whose ledger read fails returns every input item; either
\* way the ledger is unchanged.
C4_FilterExactWhenRead ==
  [][last'.op = "filter"
     => /\ ~last'.readFails => last'.out = Unposted(last'.items, ledger)
        /\ last'.readFails => last'.out = last'.items
        /\ postedReposFile' = postedReposFile]_vars

\* a filter call with a successful read dropped one item and kept another
C4_Witness ==
  /\ last.op = "filter" /\ ~last.readFails
  /\ Len(last.items) = 2 /\ Len(last.out) = 1
  /\ last.items[1].id \in Ids(ledger)
  /\ last.out[1] = last.items[2]

\* C5: the ledger never holds more than CAPACITY records.
C5_LedgerBound == Len(ledger) <= CAPACITY

\* a record call was made on a full ledger and inserted a fresh identity
C5_Witness ==
  /\ last.op = "record" /\ ~last.readFails /\ ~last.writeFails
  /\ Len(ledger) = CAPACITY
  /\ ledger[CAPACITY].id = last.items[1].id
  /\ ledger[1].id = 2

\* C6: a record call that pushes the ledger over CAPACITY drops exactly the
\* earliest-inserted records, as many as leave CAPACITY, and the survivors,
\* the new record last, keep their order.
C6_TruncationDropsOldest ==
  [][(/\ last'.op = "record" /\ ~last'.readFails /\ ~last'.writeFails
      /\ ~HasId(ledger, last'.items[1].id)
      /\ Len(ledger) + 1 > CAPACITY)
     => LET pushed == ledger \o <<[id |-> last'.items[1].id,
                                   stars |-> last'.items[1].stargazers_count]>>
            k == Len(pushed) - CAPACITY
        IN  /\ Len(ledger') = CAPACITY
            /\ \A i \in 1..CAPACITY : ledger'[i] = pushed[i + k]]_vars

\* two successive truncations happened: the two oldest records are gone and
\* the two newest are the ones inserted
C6_Witness ==
  /\ last.op = "record" /\ ~last.readFails /\ ~last.writeFails
  /\ Len(ledger) = CAPACITY
  /\ ledger[1].id = 3
  /\ ledger[CAPACITY].id = last.items[1].id
  /\ ledger[CAPACITY - 1].id > CAPACITY

\* C7: a step removes or alters existing records only if it is the reset or
\* a record call truncating oldest-first a ledger that exceeds CAPACITY;
\* every other step, failed reads included, keeps the existing records.
C7_RemovedOnlyByTruncationOrReset ==
  [][\/ IsPrefix(ledger, ledger')
     \/ last'.op = "clear"
     \/ /\ last'.op = "record"
        /\ Len(ledger) + 1 > CAPACITY
        /\ \E k \in 1..Len(ledger) :
             ledger' = SubSeq(ledger, k + 1, Len(ledger))
                         \o <<[id |-> last'.items[1].id,
                               stars |-> last'.items[1].stargazers_count]>>]_vars

(***************************************************************************)
(* Group resolution (main.js:125-172, group-manager.js:41-52)              *)
(***************************************************************************)

GroupIds == {"G1", "G2", "G3"}

NoGroupFile == [exists |-> FALSE, groups |-> <<>>]

NoSelectionFile == [exists |-> FALSE, selectedGroups |-> <<>>]

\* postToAllGroups called without selectedGroupIds (null) or with []
NoOverride == <<>>

\* group-manager.js:41-52.  readFails: readFileSync or JSON.parse throws
getSelectedGroups(file, readFails) ==
  IF file.exists
  THEN IF readFails THEN <<>> ELSE file.selectedGroups
  ELSE <<>>

\* faulty variant of resolveGroups: the configured list is consulted before
\* the persisted selection
resolveGroups_EnvFirst(selectedGroupIds, selFile, selReadFails, env, gFile, gReadFails) ==
  IF Len(selectedGroupIds) > 0
  THEN [kind |-> "ids", ids |-> selectedGroupIds]
  ELSE IF Len(env) > 0
  THEN [kind |-> "ids", ids |-> env]
  ELSE LET managerSelectedGroups == getSelectedGroups(selFile, selReadFails) IN
       IF Len(managerSelectedGroups) > 0
       THEN [kind |-> "ids", ids |-> managerSelectedGroups]
       ELSE IF gFile.exists
       THEN IF gReadFails THEN [kind |-> "throw", ids |-> <<>>]
            ELSE [kind |-> "ids", ids |-> gFile.groups]
       ELSE [kind |-> "fetch", ids |-> <<>>]

\* faulty variant of resolveGroups: the persisted selection is consulted
\* before the argument
resolveGroups_SelectionFirst(selectedGroupIds, selFile, selReadFails, env, gFile, gReadFails) ==
  LET managerSelectedGroups == getSelectedGroups(selFile, selReadFails) IN
  IF Len(managerSelectedGroups) > 0
  THEN [kind |-> "ids", ids |-> managerSelectedGroups]
  ELSE IF Len(selectedGroupIds) > 0
  THEN [kind |-> "ids", ids |-> selectedGroupIds]
  ELSE IF Len(env) > 0
  THEN [kind |-> "ids", ids |-> env]
  ELSE IF gFile.exists
  THEN IF gReadFails THEN [kind |-> "throw", ids |-> <<>>]
       ELSE [kind |-> "ids", ids |-> gFile.groups]
  ELSE [kind |-> "fetch", ids |-> <<>>]

\* main.js:145-167, up to the await of saveGroups.  kind is "ids" when the
\* list is known, "fetch" when saveGroups is awaited, "throw" when reading
\* groups.json throws (the outer catch of main.js:225 ends the invocation).
resolveGroups(selectedGroupIds, selFile, selReadFails, env, gFile, gReadFails) ==
  IF Len(selectedGroupIds) > 0
  THEN [kind |-> "ids", ids |-> selectedGroupIds]
  ELSE LET managerSelectedGroups == getSelectedGroups(selFile, selReadFails) IN
       IF Len(managerSelectedGroups) > 0
       THEN [kind |-> "ids", ids |-> managerSelectedGroups]
       ELSE IF Len(env) > 0
       THEN [kind |-> "ids", ids |-> env]
       ELSE IF gFile.exists
       THEN IF gReadFails THEN [kind |-> "throw", ids |-> <<>>]
            ELSE [kind |-> "ids", ids |-> gFile.groups]
       ELSE [kind |-> "fetch", ids |-> <<>>]

\* which files resolution reads (a read can fail only if it happens)
readsSelection(selectedGroupIds, selFile) ==
  Len(selectedGroupIds) = 0 /\ selFile.exists

readsGroupsFile(selectedGroupIds, selFile, selReadFails, env, gFile) ==
  /\ Len(selectedGroupIds) = 0
  /\ Len(getSelectedGroups(selFile, selReadFails)) = 0
  /\ Len(env) = 0
  /\ gFile.exists

\* faulty variant of saveGroups: the fetched list is returned but groups.json
\* is not written
saveGroups_NoPersist(gFile, fetched, writeFails) ==
  IF fetched.failed THEN [file |-> gFile, groupIds |-> <<>>]
  ELSE IF writeFails THEN [file |-> gFile, groupIds |-> <<>>]
  ELSE [file |-> gFile, groupIds |-> fetched.groups]

\* main.js:125-137.  fetched: what groupFetchAllParticipating resolved to, or
\* failed; writeFails: writeFileSync throws.  Either failure returns [].
saveGroups(gFile, fetched, writeFails) ==
  IF fetched.failed THEN [file |-> gFile, groupIds |-> <<>>]
  ELSE IF writeFails THEN [file |-> gFile, groupIds |-> <<>>]
  ELSE [file |-> [exists |-> TRUE, groups |-> fetched.groups],
        groupIds |-> fetched.groups]

(***************************************************************************)
(* Search (main.js:67-109)                                                 *)
(***************************************************************************)

AllKeywords == <<"AI", "chat bot", "web3", "trading", "finance tracking">>

\* main.js:8
KEYWORDS == SubSeq(AllKeywords, 1, NumKeywords)

\* main.js:183, 189, 195
Tiers == <<"new", "trending", "popular">>

\* the repositories the provider can return in the broadcast specifications
RepoPool == {Repo(CAPACITY + i, 1) : i \in 1..MaxRepo}

\* what octokit.search.repos resolves to, or that it rejected
SearchOutcomes ==
  {[failed |-> TRUE, items |-> <<>>]}
    \cup {[failed |-> FALSE, items |-> s] : s \in DistinctSeqs(RepoPool, MaxResults)}

\* the outcomes whose items come in one order (main.js:79-80, 88-89, 93-94:
\* the provider sorts each result)
Sorted(items) ==
  \A i, j \in 1..Len(items) : i < j => items[i].id < items[j].id

SortedOutcomes == {o \in SearchOutcomes : Sorted(o.items)}

\* main.js:67-109: a rejected search is caught and returns []
searchRepos(outcome) ==
  IF outcome.failed THEN <<>> ELSE outcome.items

(***************************************************************************)
(* postToAllGroups (main.js:140-228), one step per await                   *)
(***************************************************************************)

\* faulty variant of startGroups: no check for an empty list
startGroups_NoEmptyCheck(ids) ==
  [IdleRun EXCEPT !.pc = "new", !.groupIds = ids, !.g = 1, !.k = 1]

\* main.js:169-177: empty list returns, otherwise the first group's first
\* keyword is searched
startGroups(ids) ==
  IF Len(ids) = 0
  THEN [IdleRun EXCEPT !.pc = "done"]
  ELSE [IdleRun EXCEPT !.pc = "new", !.groupIds = ids, !.g = 1, !.k = 1]

\* main.js:177, 224: the next group of the for loop, or the end of the run
nextGroup(rs) ==
  IF rs.g < Len(rs.groupIds)
  THEN [rs EXCEPT !.pc = "new", !.g = @ + 1, !.k = 1, !.reposToPost = <<>>,
                  !.earlier = rs.delivered]
  ELSE [rs EXCEPT !.pc = "done", !.reposToPost = <<>>]

\* faulty variant of afterSearch: the popular tier is searched whenever the
\* new tier gave nothing, whatever the trending tier gave
afterSearch_AlwaysPopular(rs, filtered) ==
  IF rs.pc = "new"
  THEN IF Len(filtered) > 0 THEN [rs EXCEPT !.pc = "send", !.reposToPost = filtered]
       ELSE [rs EXCEPT !.pc = "trending"]
  ELSE IF rs.pc = "trending" THEN [rs EXCEPT !.pc = "popular"]
  ELSE IF Len(filtered) > 0 THEN [rs EXCEPT !.pc = "send", !.reposToPost = filtered]
  ELSE [rs EXCEPT !.pc = "delay"]

\* main.js:184-202: after a tier's result is filtered
afterSearch(rs, filtered) ==
  IF Len(filtered) > 0
  THEN [rs EXCEPT !.pc = "send", !.reposToPost = filtered]
  ELSE IF rs.pc = "new" THEN [rs EXCEPT !.pc = "trending"]
  ELSE IF rs.pc = "trending" THEN [rs EXCEPT !.pc = "popular"]
  ELSE [rs EXCEPT !.pc = "delay"]

\* faulty variant of afterSend: a rejected sendMessage ends the whole run
afterSend_FailureEndsRun(rs, ok) ==
  IF ok THEN [rs EXCEPT !.pc = "delay", !.reposToPost = <<>>,
                        !.delivered = @ \cup Ids(rs.reposToPost)]
  ELSE [rs EXCEPT !.pc = "done", !.reposToPost = <<>>, !.errorCount = @ + 1]

\* faulty variant of afterSend: the catch is inside the keyword loop, so a
\* rejected sendMessage counts a failure and the group's next keyword follows
afterSend_FailureNextKeyword(rs, ok) ==
  IF ok THEN [rs EXCEPT !.pc = "delay", !.reposToPost = <<>>,
                        !.delivered = @ \cup Ids(rs.reposToPost)]
  ELSE [rs EXCEPT !.pc = "delay", !.reposToPost = <<>>, !.errorCount = @ + 1]

\* main.js:202-214 and 218-221: sendMessage resolved, or rejected
afterSend(rs, ok) ==
  IF ok THEN [rs EXCEPT !.pc = "delay", !.reposToPost = <<>>,
                        !.delivered = @ \cup Ids(rs.reposToPost)]
  ELSE nextGroup([rs EXCEPT !.errorCount = @ + 1])

\* main.js:214-217: the delay elapsed
afterDelay(rs) ==
  IF rs.k < Len(KEYWORDS)
  THEN [rs EXCEPT !.pc = "new", !.k = @ + 1]
  ELSE nextGroup([rs EXCEPT !.successCount = @ + 1])

SaveOutcomes == {"ok", "readFails", "writeFails"}

\* faulty variant of saveAll: only the first repo of the message is saved
saveAll_FirstOnly(file, repos, outcomes) ==
  IF repos = <<>> THEN file
  ELSE savePostedRepo(file, Head(repos), Head(outcomes) = "readFails",
                      Head(outcomes) = "writeFails")

\* main.js:206-208: savePostedRepo for each repo, each with its own outcome
RECURSIVE saveAll(_, _, _)
saveAll(file, repos, outcomes) ==
  IF repos = <<>> THEN file
  ELSE saveAll(savePostedRepo(file, Head(repos), Head(outcomes) = "readFails",
                              Head(outcomes) = "writeFails"),
               Tail(repos), Tail(outcomes))

\* the outcomes that can happen: a read fails only if the file exists, a
\* write only if it is attempted
RECURSIVE possibleOutcomes(_, _, _)
possibleOutcomes(file, repos, outcomes) ==
  IF repos = <<>> THEN TRUE
  ELSE /\ Head(outcomes) = "readFails" => file.exists
       /\ Head(outcomes) = "writeFails" => attemptsWrite(file, Head(repos), FALSE)
       /\ possibleOutcomes(savePostedRepo(file, Head(repos), Head(outcomes) = "readFails",
                                          Head(outcomes) = "writeFails"),
                           Tail(repos), Tail(outcomes))

Active(rs) == rs.pc # "idle"

\* an invocation that returned leaves nothing behind but its report
settle(rs) == IF rs.pc = "done" THEN IdleRun ELSE rs

reportOf(rs, result) == IF rs.pc = "done" THEN Report(rs, result) ELSE <<>>

\* how many invocations (broadcasts, ad-hoc command) are in progress
ActiveCount ==
  Cardinality({r \in Runs : Active(run[r])}) + (IF cmd.pc # "idle" THEN 1 ELSE 0)

\* faulty variant of Begin: no outer try/catch, so an error thrown while
\* groups.json is read leaves the function as a rejection ("raised")
postToAllGroups_NoOuterCatch(r, selectedGroupIds, selReadFails, gReadFails, limit) ==
  /\ ~Active(run[r])
  /\ ActiveCount < limit
  /\ selReadFails => readsSelection(selectedGroupIds, selectedGroupsFile)
  /\ gReadFails => readsGroupsFile(selectedGroupIds, selectedGroupsFile,
                                   selReadFails, SELECTED_GROUPS, groupsFile)
  /\ LET res == resolveGroups(selectedGroupIds, selectedGroupsFile, selReadFails,
                              SELECTED_GROUPS, groupsFile, gReadFails)
         next == IF res.kind = "ids"
                 THEN [startGroups(res.ids) EXCEPT !.selectedGroupIds = selectedGroupIds]
                 ELSE IF res.kind = "fetch" THEN [IdleRun EXCEPT !.pc = "fetch"]
                 ELSE [IdleRun EXCEPT !.pc = "raised"]
     IN  /\ run' = [run EXCEPT ![r] = settle(next)]
         /\ last' = Event("begin", r, "none", selectedGroupIds,
                          res.kind = "throw", selReadFails \/ gReadFails, FALSE,
                          reportOf(next, "nogroups"))
  /\ UNCHANGED <<postedReposFile, groupVars, cmd>>

\* main.js:140-172: the call, up to its first await or its return
postToAllGroups(r, selectedGroupIds, selReadFails, gReadFails, limit) ==
  /\ ~Active(run[r])
  /\ ActiveCount < limit
  /\ selReadFails => readsSelection(selectedGroupIds, selectedGroupsFile)
  /\ gReadFails => readsGroupsFile(selectedGroupIds, selectedGroupsFile,
                                   selReadFails, SELECTED_GROUPS, groupsFile)
  /\ LET res == resolveGroups(selectedGroupIds, selectedGroupsFile, selReadFails,
                              SELECTED_GROUPS, groupsFile, gReadFails)
         next == IF res.kind = "ids"
                 THEN [startGroups(res.ids) EXCEPT !.selectedGroupIds = selectedGroupIds]
                 ELSE IF res.kind = "fetch" THEN [IdleRun EXCEPT !.pc = "fetch"]
                 ELSE [IdleRun EXCEPT !.pc = "done"]
     IN  /\ run' = [run EXCEPT ![r] = settle(next)]
         /\ last' = Event("begin", r, "none", selectedGroupIds,
                          res.kind = "throw", selReadFails \/ gReadFails, FALSE,
                          reportOf(next, IF res.kind = "throw" THEN "error" ELSE "nogroups"))
  /\ UNCHANGED <<postedReposFile, groupVars, cmd>>

\* a broadcast invoked by a command handler (main.js:255, 265) or by
\* triggerManualPost (scheduler.js:106): the scheduler object is not touched
Begin(r, selectedGroupIds, selReadFails, gReadFails, limit) ==
  /\ postToAllGroups(r, selectedGroupIds, selReadFails, gReadFails, limit)
  /\ UNCHANGED schedVars

\* faulty variant of FetchDone: the fetched groups are also stored as the
\* selection
FetchDone_SavesSelection(r, fetched, writeFails) ==
  /\ run[r].pc = "fetch"
  /\ writeFails => ~fetched.failed
  /\ LET res == saveGroups(groupsFile, fetched, writeFails)
         next == startGroups(res.groupIds)
     IN  /\ groupsFile' = res.file
         /\ selectedGroupsFile' = [exists |-> TRUE, selectedGroups |-> res.groupIds]
         /\ run' = [run EXCEPT ![r] = settle(next)]
         /\ last' = Event("fetch", r, "none", fetched.groups, fetched.failed, FALSE,
                          writeFails, reportOf(next, "nogroups"))
  /\ UNCHANGED <<schedVars, postedReposFile, SELECTED_GROUPS, cmd>>

\* main.js:163 with 125-137: saveGroups resolved
FetchDone(r, fetched, writeFails) ==
  /\ run[r].pc = "fetch"
  /\ writeFails => ~fetched.failed
  /\ LET res == saveGroups(groupsFile, fetched, writeFails)
         next == startGroups(res.groupIds)
     IN  /\ groupsFile' = res.file
         /\ run' = [run EXCEPT ![r] = settle(next)]
         /\ last' = Event("fetch", r, "none", fetched.groups, fetched.failed, FALSE,
                          writeFails, reportOf(next, "nogroups"))
  /\ UNCHANGED <<schedVars, postedReposFile, selectedGroupsFile, SELECTED_GROUPS, cmd>>

\* faulty variant of SearchDone: the result is not passed through
\* filterNewRepos
SearchDone_Unfiltered(r, outcome, readFails) ==
  /\ run[r].pc \in Range(Tiers)
  /\ readFails => postedReposFile.exists
  /\ LET filtered == searchRepos(outcome) IN
       /\ run' = [run EXCEPT ![r] = afterSearch(@, filtered)]
       /\ last' = Event("search", r, run[r].pc, outcome.items, outcome.failed,
                        readFails, FALSE, filtered)
  /\ UNCHANGED <<schedVars, postedReposFile, groupVars, cmd>>

\* faulty variant of SearchDone: searchRepos has no try/catch, so a rejected
\* search reaches the per-group catch of main.js:218
SearchDone_FailureThrows(r, outcome, readFails) ==
  /\ run[r].pc \in Range(Tiers)
  /\ readFails => postedReposFile.exists
  /\ LET filtered == filterNewRepos(postedReposFile, searchRepos(outcome), readFails)
         next == IF outcome.failed
                 THEN nextGroup([run[r] EXCEPT !.errorCount = @ + 1])
                 ELSE afterSearch(run[r], filtered)
     IN  /\ run' = [run EXCEPT ![r] = settle(next)]
         /\ last' = Event("search", r, run[r].pc, outcome.items, outcome.failed,
                          readFails, FALSE, filtered)
  /\ UNCHANGED <<schedVars, postedReposFile, groupVars, cmd>>

\* main.js:183-202: a tier's search resolved; its result is filtered and
\* either sent, or the next tier is searched, or the delay starts
SearchDone(r, outcome, readFails) ==
  /\ run[r].pc \in Range(Tiers)
  /\ readFails => postedReposFile.exists
  /\ LET filtered == filterNewRepos(postedReposFile, searchRepos(outcome), readFails) IN
       /\ run' = [run EXCEPT ![r] = afterSearch(@, filtered)]
       /\ last' = Event("search", r, run[r].pc, outcome.items, outcome.failed,
                        readFails, FALSE, filtered)
  /\ UNCHANGED <<schedVars, postedReposFile, groupVars, cmd>>

\* faulty variant of SendDone: the repos of a delivered message are not
\* saved
SendDone_SavesNothing(r, ok, outcomes) ==
  /\ run[r].pc = "send"
  /\ ok => possibleOutcomes(postedReposFile, run[r].reposToPost, outcomes)
  /\ ~ok => \A i \in DOMAIN outcomes : outcomes[i] = "ok"
  /\ postedReposFile' = postedReposFile
  /\ run' = [run EXCEPT ![r] = settle(afterSend(@, ok))]
  /\ last' = Event("send", r, "none", run[r].reposToPost, ~ok,
                   \E i \in DOMAIN outcomes : outcomes[i] = "readFails",
                   \E i \in DOMAIN outcomes : outcomes[i] = "writeFails",
                   reportOf(afterSend(run[r], ok), "completed"))
  /\ UNCHANGED <<schedVars, groupVars, cmd>>

\* main.js:202-208, 218-221: sendMessage resolved (the repos are saved) or
\* rejected (the group is counted as failed)
SendDone(r, ok, outcomes) ==
  /\ run[r].pc = "send"
  /\ ok => possibleOutcomes(postedReposFile, run[r].reposToPost, outcomes)
  /\ ~ok => \A i \in DOMAIN outcomes : outcomes[i] = "ok"
  /\ postedReposFile' =
       IF ok THEN saveAll(postedReposFile, run[r].reposToPost, outcomes)
       ELSE postedReposFile
  /\ run' = [run EXCEPT ![r] = settle(afterSend(@, ok))]
  /\ last' = Event("send", r, "none", run[r].reposToPost, ~ok,
                   \E i \in DOMAIN outcomes : outcomes[i] = "readFails",
                   \E i \in DOMAIN outcomes : outcomes[i] = "writeFails",
                   reportOf(afterSend(run[r], ok), "completed"))
  /\ UNCHANGED <<schedVars, groupVars, cmd>>

\* main.js:214: the 2 s timer fired
DelayDone(r) ==
  /\ run[r].pc = "delay"
  /\ run' = [run EXCEPT ![r] = settle(afterDelay(@))]
  /\ last' = Event("delay", r, "none", <<>>, FALSE, FALSE, FALSE,
                   reportOf(afterDelay(run[r]), "completed"))
  /\ UNCHANGED <<schedVars, postedReposFile, groupVars, cmd>>

\* main.js:450-462: !clearrepohistory
ClearHistory(unlinkFails) ==
  /\ unlinkFails => postedReposFile.exists
  /\ postedReposFile' = clearRepoHistory(postedReposFile, unlinkFails)
  /\ last' = Event("clear", "none", "none", <<>>, FALSE, FALSE, unlinkFails, <<>>)
  /\ UNCHANGED <<schedVars, groupVars, taskVars>>

(***************************************************************************)
(* Group selection commands (group-manager.js:12-91, 137-250)              *)
(***************************************************************************)

SelectionFileOf(groupIds) == [exists |-> TRUE, selectedGroups |-> groupIds]

\* group-manager.js:12-38.  The list is empty when the fetch is rejected or
\* writeFileSync throws; otherwise groups.json is rewritten.
getAllGroups(gFile, fetched, writeFails) ==
  IF fetched.failed \/ writeFails THEN [file |-> gFile, groups |-> <<>>]
  ELSE [file |-> [exists |-> TRUE, groups |-> fetched.groups],
        groups |-> fetched.groups]

\* group-manager.js:55-69.  writeFails: writeFileSync throws
setSelectedGroups(file, groupIds, writeFails) ==
  IF writeFails THEN file ELSE SelectionFileOf(groupIds)

\* group-manager.js:72-79
addGroupToSelection(file, groupId, readFails, writeFails) ==
  LET currentSelection == getSelectedGroups(file, readFails) IN
  IF groupId \notin Range(currentSelection)
  THEN setSelectedGroups(file, Append(currentSelection, groupId), writeFails)
  ELSE file

\* group-manager.js:82-86
removeGroupFromSelection(file, groupId, readFails, writeFails) ==
  LET currentSelection == getSelectedGroups(file, readFails)
      newSelection == SelectSeq(currentSelection, LAMBDA id : id # groupId)
  IN  setSelectedGroups(file, newSelection, writeFails)

\* faulty variant of clearSelection: the selection file is left as it is
clearSelection_NoOp(file, writeFails) == file

\* group-manager.js:89-91
clearSelection(file, writeFails) == setSelectedGroups(file, <<>>, writeFails)

\* group-manager.js:164-192: !selectgroup <groupIndex + 1>, at the moment
\* getAllGroups resolves
SelectGroup(fetched, gWriteFails, groupIndex, readFails, writeFails) ==
  /\ gWriteFails => ~fetched.failed
  /\ LET all == getAllGroups(groupsFile, fetched, gWriteFails)
         valid == groupIndex >= 0 /\ groupIndex < Len(all.groups)
     IN  /\ readFails => (valid /\ selectedGroupsFile.exists)
         /\ writeFails =>
              /\ valid
              /\ all.groups[groupIndex + 1]
                   \notin Range(getSelectedGroups(selectedGroupsFile, readFails))
         /\ groupsFile' = all.file
         /\ selectedGroupsFile' =
              IF valid
              THEN addGroupToSelection(selectedGroupsFile, all.groups[groupIndex + 1],
                                       readFails, writeFails)
              ELSE selectedGroupsFile
         /\ last' = Event("selectgroup", "none", "none", all.groups, ~valid,
                          readFails, writeFails \/ gWriteFails, <<>>)
  /\ UNCHANGED <<schedVars, postedReposFile, SELECTED_GROUPS, taskVars>>

\* group-manager.js:194-225: !unselectgroup <unselectIndex + 1>.  readFails
\* is the read of the handler, readFails2 the read of
\* removeGroupFromSelection.
UnselectGroup(unselectIndex, readFails, readFails2, writeFails) ==
  /\ LET selectedList == getSelectedGroups(selectedGroupsFile, readFails)
         valid == unselectIndex >= 0 /\ unselectIndex < Len(selectedList)
     IN  /\ readFails => selectedGroupsFile.exists
         /\ readFails2 => valid
         /\ writeFails => valid
         /\ selectedGroupsFile' =
              IF valid
              THEN removeGroupFromSelection(selectedGroupsFile,
                                            selectedList[unselectIndex + 1],
                                            readFails2, writeFails)
              ELSE selectedGroupsFile
         /\ last' = Event("unselectgroup", "none", "none", selectedList, ~valid,
                          readFails \/ readFails2, writeFails, <<>>)
  /\ UNCHANGED <<schedVars, postedReposFile, groupsFile, SELECTED_GROUPS, taskVars>>

\* group-manager.js:227-233: !cleargroups
ClearGroups(writeFails) ==
  /\ selectedGroupsFile' = clearSelection(selectedGroupsFile, writeFails)
  /\ last' = Event("cleargroups", "none", "none", <<>>, FALSE, FALSE, writeFails, <<>>)
  /\ UNCHANGED <<schedVars, postedReposFile, groupsFile, SELECTED_GROUPS, taskVars>>

(***************************************************************************)
(* Ad-hoc search commands (main.js:301-427, 464-508), one step per await   *)
(* that decides what the handler does next                                 *)
(***************************************************************************)

CmdKinds == {"newrepos", "trendingrepos", "searchrepo"}

\* main.js:340, 357 / 404, 421: the next keyword of the default-keyword loop
cmdNextKeyword(c) ==
  IF c.k < Len(KEYWORDS)
  THEN [c EXCEPT !.pc = "search", !.k = @ + 1, !.items = <<>>]
  ELSE IdleCmd

\* main.js:314-329, 341-356, 482-503: after the search resolved
cmdAfterSearch(c, repos) ==
  IF Len(repos) > 0 THEN [c EXCEPT !.pc = "send", !.items = repos]
  ELSE IF c.loop THEN cmdNextKeyword(c)
  ELSE IdleCmd

\* main.js:301-314, 335-341, 365-378, 398-405, 464-487: the command arrives
\* in a group, with a keyword (loop = FALSE) or, for !newrepos and
\* !trendingrepos, without one (loop = TRUE: the default keywords)
CmdBegin(kind, loop, limit) ==
  /\ cmd.pc = "idle"
  /\ ActiveCount < limit
  /\ loop => kind # "searchrepo"
  /\ cmd' = [pc |-> "search", kind |-> kind, loop |-> loop,
             k |-> IF loop THEN 1 ELSE 0, items |-> <<>>]
  /\ last' = Event("cmd", "cmd", kind, <<>>, FALSE, FALSE, FALSE, <<>>)
  /\ UNCHANGED <<schedVars, postedReposFile, groupVars, run>>

\* main.js:314-319, 341-346 (searchRepos, then filterNewRepos) and 482-493
\* (octokit.search.repos directly, unfiltered; a rejection ends the command)
CmdSearchDone(outcome, readFails) ==
  /\ cmd.pc = "search"
  /\ readFails => (postedReposFile.exists /\ cmd.kind # "searchrepo")
  /\ LET repos ==
           IF cmd.kind = "searchrepo" THEN outcome.items
           ELSE filterNewRepos(postedReposFile, searchRepos(outcome), readFails)
     IN  /\ cmd' = IF cmd.kind = "searchrepo" /\ outcome.failed THEN IdleCmd
                   ELSE cmdAfterSearch(cmd, repos)
         /\ last' = Event("cmdsearch", "cmd", cmd.kind, outcome.items, outcome.failed,
                          readFails, FALSE, repos)
  /\ UNCHANGED <<schedVars, postedReposFile, groupVars, run>>

\* faulty variant of CmdSendDone: the repos are saved before the message is
\* sent, so a rejected sendMessage leaves them recorded
CmdSendDone_SavesFirst(ok, outcomes) ==
  /\ cmd.pc = "send"
  /\ possibleOutcomes(postedReposFile, cmd.items, outcomes)
  /\ postedReposFile' = saveAll(postedReposFile, cmd.items, outcomes)
  /\ cmd' = IF ok /\ cmd.loop THEN [cmd EXCEPT !.pc = "delay", !.items = <<>>]
            ELSE IdleCmd
  /\ last' = Event("cmdsend", "cmd", cmd.kind, cmd.items, ~ok,
                   \E i \in DOMAIN outcomes : outcomes[i] = "readFails",
                   \E i \in DOMAIN outcomes : outcomes[i] = "writeFails", <<>>)
  /\ UNCHANGED <<schedVars, groupVars, run>>

\* main.js:319-333, 346-355, 493-507: sendMessage resolved (the repos are
\* saved) or rejected (the command ends)
CmdSendDone(ok, outcomes) ==
  /\ cmd.pc = "send"
  /\ ok => possibleOutcomes(postedReposFile, cmd.items, outcomes)
  /\ ~ok => \A i \in DOMAIN outcomes : outcomes[i] = "ok"
  /\ postedReposFile' =
       IF ok THEN saveAll(postedReposFile, cmd.items, outcomes)
       ELSE postedReposFile
  /\ cmd' = IF ok /\ cmd.loop THEN [cmd EXCEPT !.pc = "delay", !.items = <<>>]
            ELSE IdleCmd
  /\ last' = Event("cmdsend", "cmd", cmd.kind, cmd.items, ~ok,
                   \E i \in DOMAIN outcomes : outcomes[i] = "readFails",
                   \E i \in DOMAIN outcomes : outcomes[i] = "writeFails", <<>>)
  /\ UNCHANGED <<schedVars, groupVars, run>>

\* main.js:355, 419: the 2 s timer of the default-keyword loop fired
CmdDelayDone ==
  /\ cmd.pc = "delay"
  /\ cmd' = cmdNextKeyword(cmd)
  /\ last' = Event("cmddelay", "cmd", cmd.kind, <<>>, FALSE, FALSE, FALSE, <<>>)
  /\ UNCHANGED <<schedVars, postedReposFile, groupVars, run>>

\* faulty variant of searchRepoReply: no check of args.length
searchRepoReply_NoArgsCheck(isGroup, numArgs) ==
  IF ~isGroup THEN "groupsonly" ELSE "search"

\* main.js:464-477: what !searchrepo answers first, by the chat it came from
\* and the number of words after the command
searchRepoReply(isGroup, numArgs) ==
  IF ~isGroup THEN "groupsonly"
  ELSE IF numArgs = 0 THEN "usage"
  ELSE "search"

\* main.js:464-487 with the catch of 547-549: !searchrepo arrives.  who is the
\* invoking chat, to which the reply is sent; tier is the reply; items has
\* one element for each argument.  A rejected sendMessage is caught by the
\* handler and ends it.
SearchRepoCommand(isGroup, numArgs, sendOk, limit) ==
  LET reply == searchRepoReply(isGroup, numArgs)
  IN  /\ cmd.pc = "idle"
      /\ ActiveCount < limit
      /\ cmd' = IF reply = "search" /\ sendOk
                THEN [pc |-> "search", kind |-> "searchrepo", loop |-> FALSE,
                      k |-> 0, items |-> <<>>]
                ELSE cmd
      /\ last' = Event("searchrepo", IF isGroup THEN "group" ELSE "private", reply,
                       [i \in 1..numArgs |-> "word"], ~sendOk, FALSE, FALSE, <<>>)
      /\ UNCHANGED <<schedVars, postedReposFile, groupVars, run>>

(***************************************************************************)
(* Broadcast specifications                                                *)
(***************************************************************************)

\* main.js:255 ([m.chat]), main.js:265 and scheduler.js:90 (no argument)
Overrides == {NoOverride, <<"G1">>}

\* what groupFetchAllParticipating resolves to (Object.keys), or rejected
FetchOutcomes ==
  {[failed |-> TRUE, groups |-> <<>>]}
    \cup {[failed |-> FALSE, groups |-> gs] : gs \in {<<>>, <<"G1">>, <<"G1", "G2">>}}

Init ==
  /\ postedReposFile = NoFile
  /\ selectedGroupsFile = NoSelectionFile
  /\ groupsFile = NoGroupFile
  /\ SELECTED_GROUPS = <<"G1", "G2">>
  /\ run = [r \in Runs |-> IdleRun]
  /\ cmd = IdleCmd
  /\ last = NoOp
  /\ SchedulerUnused

BeginSched(limit) ==
  \E selRf \in BOOLEAN, gRf \in BOOLEAN : Begin("sched", NoOverride, selRf, gRf, limit)

BeginManual(limit) ==
  \E o \in Overrides, selRf \in BOOLEAN, gRf \in BOOLEAN :
    Begin("manual", o, selRf, gRf, limit)

\* main.js:140: postToAllGroups called with a list of several groups
ListOverrides == {<<"G3", "G1", "G2">>}

BeginList(limit) ==
  \E o \in ListOverrides, selRf \in BOOLEAN, gRf \in BOOLEAN :
    Begin("manual", o, selRf, gRf, limit)

FetchStep ==
  \E r \in Runs, fetched \in FetchOutcomes, wf \in BOOLEAN : FetchDone(r, fetched, wf)

RunStep(Outcomes) ==
  \E r \in Runs :
    \/ \E outcome \in Outcomes, rf \in BOOLEAN : SearchDone(r, outcome, rf)
    \/ \E ok \in BOOLEAN, outcomes \in [1..Len(run[r].reposToPost) -> SaveOutcomes] :
         SendDone(r, ok, outcomes)
    \/ DelayDone(r)

CmdStep(Outcomes, limit) ==
  \/ \E kind \in CmdKinds, loop \in BOOLEAN : CmdBegin(kind, loop, limit)
  \/ \E outcome \in Outcomes, rf \in BOOLEAN : CmdSearchDone(outcome, rf)
  \/ \E ok \in BOOLEAN, outcomes \in [1..Len(cmd.items) -> SaveOutcomes] :
       CmdSendDone(ok, outcomes)
  \/ CmdDelayDone

Next ==
  \/ BeginSched(1)
  \/ BeginManual(1)
  \/ RunStep(SortedOutcomes)
  \/ CmdStep(SortedOutcomes, 1)
  \/ \E uf \in BOOLEAN : ClearHistory(uf)

\* one invocation at a time: broadcasts and commands do not overlap
Spec == Init /\ [][Next]_vars

\* a search in the interleaving specification returns at most one repository
RaceOutcomes == {o \in SearchOutcomes : Len(o.items) <= 1}

InitRace ==
  /\ postedReposFile = NoFile
  /\ selectedGroupsFile = NoSelectionFile
  /\ groupsFile = NoGroupFile
  /\ SELECTED_GROUPS = <<"G1">>
  /\ run = [r \in Runs |-> IdleRun]
  /\ cmd = IdleCmd
  /\ last = NoOp
  /\ SchedulerUnused

NextRace ==
  \/ BeginSched(MaxConcurrent)
  \/ BeginManual(MaxConcurrent)
  \/ RunStep(RaceOutcomes)
  \/ CmdStep(RaceOutcomes, MaxConcurrent)
  \/ \E uf \in BOOLEAN : ClearHistory(uf)

\* a scheduled broadcast, a manual one and an ad-hoc command interleave at
\* their awaits, at most MaxConcurrent of them in progress at a time
SpecRace == InitRace /\ [][NextRace]_vars

\* a search in the resolution specification fails or returns one repository
ResolveOutcomes ==
  {o \in SearchOutcomes : o.failed \/ o.items = <<Repo(CAPACITY + 1, 1)>>}

\* .env: SELECTED_GROUPS unset, or one configured group
ConfiguredLists == {<<>>, <<"G3">>}

InitResolve ==
  /\ postedReposFile = NoFile
  /\ selectedGroupsFile = NoSelectionFile
  /\ groupsFile = NoGroupFile
  /\ SELECTED_GROUPS \in ConfiguredLists
  /\ run = [r \in Runs |-> IdleRun]
  /\ cmd = IdleCmd
  /\ last = NoOp
  /\ SchedulerUnused

GroupCommand ==
  \/ \E fetched \in FetchOutcomes, gwf \in BOOLEAN, groupIndex \in 0..2,
        rf \in BOOLEAN, wf \in BOOLEAN :
       SelectGroup(fetched, gwf, groupIndex, rf, wf)
  \/ \E unselectIndex \in 0..2, rf \in BOOLEAN, rf2 \in BOOLEAN, wf \in BOOLEAN :
       UnselectGroup(unselectIndex, rf, rf2, wf)
  \/ \E wf \in BOOLEAN : ClearGroups(wf)

NextResolve ==
  \/ BeginSched(1)
  \/ BeginManual(1)
  \/ BeginList(1)
  \/ FetchStep
  \/ RunStep(ResolveOutcomes)
  \/ (ActiveCount = 0 /\ GroupCommand)

\* broadcasts, one at a time, and group selection commands handled between
\* them (resolution is the synchronous start of a broadcast, so a command
\* cannot fall inside it)
SpecResolve == InitResolve /\ [][NextResolve]_vars

NextCommands ==
  \/ \E isGroup \in BOOLEAN, numArgs \in 0..1, sendOk \in BOOLEAN :
       SearchRepoCommand(isGroup, numArgs, sendOk, 1)
  \/ CmdStep(SortedOutcomes, 1)

\* the ad-hoc commands, one at a time, from group and private chats
SpecCommands == Init /\ [][NextCommands]_vars

(***************************************************************************)
(* The scheduler (scheduler.js)                                            *)
(***************************************************************************)

\* the scheduler object together with the timeouts of the event loop
Armed(s, tm) == [scheduler |-> s, timers |-> tm]

\* scheduler.js:56-71: a fresh timeout is created and its id stored in
\* timeoutId; the value timeoutId held before is overwritten, not cleared
scheduleNextPost(s, tm) ==
  LET t == tm.created + 1
  IN  Armed([s EXCEPT !.timeoutId = t],
            [tm EXCEPT !.pending = @ \cup {t}, !.created = t])

\* scheduler.js:20-41
start(s, tm) ==
  IF ~s.client THEN Armed(s, tm)
  ELSE IF ~s.autoPostEnabled THEN Armed(s, tm)
  ELSE IF s.isRunning THEN Armed(s, tm)
  ELSE scheduleNextPost([s EXCEPT !.isRunning = TRUE], tm)

\* scheduler.js:43-54: clearTimeout of the stored id only (clearing a timeout
\* that has fired changes nothing); intervalId is never set
stop(s, tm) ==
  Armed([s EXCEPT !.timeoutId = 0, !.isRunning = FALSE],
        [tm EXCEPT !.pending = @ \ {s.timeoutId}])

\* scheduler.js:64-70 without the re-arming at 67-69
afterExecutePost_NeverRearms(s, tm, r) ==
  Armed(s, [tm EXCEPT !.executing = @ \ {r}])

\* scheduler.js:64-70: the continuation of the timer callback after
\* executePost has resolved
afterExecutePost(s, tm, r) ==
  LET done == [tm EXCEPT !.executing = @ \ {r}]
  IN  IF s.isRunning THEN scheduleNextPost(s, done) ELSE Armed(s, done)

\* the step creates a timeout
Arms(s, tm, after) == after.timers.created # tm.created

\* scheduler.js:16-18
SetClient ==
  /\ scheduler' = [scheduler EXCEPT !.client = TRUE]
  /\ last' = Event("setclient", "scheduler", "none", <<>>, FALSE, FALSE, FALSE, <<>>)
  /\ UNCHANGED <<timers, postedReposFile, groupVars, taskVars>>

\* scheduler.js:20-41.  failed: the call returned without arming
Start ==
  LET after == start(scheduler, timers)
  IN  /\ Arms(scheduler, timers, after) => timers.created < MaxTimers
      /\ scheduler' = after.scheduler
      /\ timers' = after.timers
      /\ last' = Event("start", "scheduler", "none", <<>>,
                       ~Arms(scheduler, timers, after), FALSE, FALSE, <<>>)
      /\ UNCHANGED <<postedReposFile, groupVars, taskVars>>

\* scheduler.js:43-54
Stop ==
  LET after == stop(scheduler, timers)
  IN  /\ scheduler' = after.scheduler
      /\ timers' = after.timers
      /\ last' = Event("stop", "scheduler", "none", <<>>, FALSE, FALSE, FALSE, <<>>)
      /\ UNCHANGED <<postedReposFile, groupVars, taskVars>>

\* scheduler.js:63-64 with 87-90: timeout t fires; its callback calls
\* executePost, which calls postToAllGroups(this.client) with no group list.
\* r is the invocation the callback awaits.
TimerFires(t, r, selReadFails, gReadFails) ==
  /\ t \in timers.pending
  /\ r \notin timers.executing
  /\ timers' = [timers EXCEPT !.pending = @ \ {t}, !.executing = @ \cup {r}]
  /\ UNCHANGED scheduler
  /\ postToAllGroups(r, NoOverride, selReadFails, gReadFails, MaxConcurrent)

\* scheduler.js:64-70 with 91-94: postToAllGroups has ended (it reports its
\* failures and does not throw; executePost catches in any case), the
\* callback resumes and re-arms if the scheduler is running
PostCompleted(r) ==
  LET after == afterExecutePost(scheduler, timers, r)
  IN  /\ r \in timers.executing
      /\ ~Active(run[r])
      /\ Arms(scheduler, timers, after) => timers.created < MaxTimers
      /\ scheduler' = after.scheduler
      /\ timers' = after.timers
      /\ last' = Event("completed", r, "none", <<>>,
                       ~Arms(scheduler, timers, after), FALSE, FALSE, <<>>)
      /\ UNCHANGED <<postedReposFile, groupVars, taskVars>>

\* AUTO_POST_ENABLED is configuration (scheduler.js:6); one configured group
InitSched ==
  /\ postedReposFile = NoFile
  /\ selectedGroupsFile = NoSelectionFile
  /\ groupsFile = NoGroupFile
  /\ SELECTED_GROUPS = <<"G1">>
  /\ run = [r \in Runs |-> IdleRun]
  /\ cmd = IdleCmd
  /\ last = NoOp
  /\ \E enabled \in BOOLEAN : scheduler = BotScheduler(enabled)
  /\ timers = NoTimers

\* a search under the scheduler either rejects or finds one repository
SchedOutcomes ==
  {o \in SearchOutcomes : o.failed \/ o.items = <<Repo(CAPACITY + 1, 1)>>}

NextSched ==
  \/ SetClient
  \/ Start
  \/ Stop
  \/ \E t \in 1..MaxTimers, r \in Runs, selRf \in BOOLEAN, gRf \in BOOLEAN :
       TimerFires(t, r, selRf, gRf)
  \/ RunStep(SchedOutcomes)
  \/ \E r \in Runs : PostCompleted(r)

\* the scheduler driven by start, stop and its own timeouts; the broadcasts
\* are those its timeouts invoke
SpecSched == InitSched /\ [][NextSched]_vars

\* a timeout that is pending fires (setTimeout), every await of a broadcast
\* settles, and a callback whose executePost has resolved resumes
FairSched ==
  /\ \A t \in 1..MaxTimers :
       WF_vars(\E r \in Runs, selRf \in BOOLEAN, gRf \in BOOLEAN :
                 TimerFires(t, r, selRf, gRf))
  /\ WF_vars(RunStep(SchedOutcomes))
  /\ \A r \in Runs : WF_vars(PostCompleted(r))

SpecSchedLive == SpecSched /\ FairSched

\* faulty variant of TriggerManualPost: the manual post goes through the
\* timer path and arms a wake-up
TriggerManualPost_Arms(r, selectedGroupIds, selReadFails, gReadFails) ==
  /\ scheduler.client
  /\ r \notin timers.executing
  /\ timers.created < MaxTimers
  /\ postToAllGroups(r, selectedGroupIds, selReadFails, gReadFails, MaxConcurrent)
  /\ scheduler' = scheduleNextPost(scheduler, timers).scheduler
  /\ timers' = scheduleNextPost(scheduler, timers).timers

\* scheduler.js:98-106: triggerManualPost with a client set calls
\* postToAllGroups(this.client, selectedGroupIds); null stands for no list
TriggerManualPost(r, selectedGroupIds, selReadFails, gReadFails) ==
  /\ scheduler.client
  /\ r \notin timers.executing
  /\ postToAllGroups(r, selectedGroupIds, selReadFails, gReadFails, MaxConcurrent)
  /\ UNCHANGED schedVars

\* scheduler.js:98-101: without a client nothing is invoked
TriggerWithoutClient ==
  /\ ~scheduler.client
  /\ last' = Event("trigger", "scheduler", "none", <<>>, TRUE, FALSE, FALSE, <<>>)
  /\ UNCHANGED <<schedVars, postedReposFile, groupVars, taskVars>>

\* the steps of the broadcasts when every read and write of the ledger
\* succeeds
RunStepSaved(Outcomes) ==
  \E r \in Runs :
    \/ \E outcome \in Outcomes : SearchDone(r, outcome, FALSE)
    \/ \E ok \in BOOLEAN :
         SendDone(r, ok, [i \in 1..Len(run[r].reposToPost) |-> "ok"])
    \/ DelayDone(r)

NextManual ==
  \/ SetClient
  \/ Start
  \/ Stop
  \/ \E t \in 1..MaxTimers, r \in Runs, selRf \in BOOLEAN, gRf \in BOOLEAN :
       TimerFires(t, r, selRf, gRf)
  \/ \E r \in Runs, o \in Overrides, selRf \in BOOLEAN, gRf \in BOOLEAN :
       TriggerManualPost(r, o, selRf, gRf)
  \/ TriggerWithoutClient
  \/ RunStepSaved(SchedOutcomes)
  \/ \E r \in Runs : PostCompleted(r)

\* the scheduler together with manual triggers; the ledger never fails, so
\* whatever the broadcasts do to each other comes from their interleaving
SpecManual == InitSched /\ [][NextManual]_vars

(***************************************************************************)
(* The time of the next post (scheduler.js:5-14, 56-60, 73-85)             *)
(***************************************************************************)

\* what parseInt returns for an environment variable that is not set
NaN == -1

\* scheduler.js:8 and 9: parseInt(process.env.X) || fallback.  The operator ||
\* takes the fallback for NaN and for 0
orDefault(parsed, fallback) ==
  IF parsed = NaN \/ parsed = 0 THEN fallback ELSE parsed

\* scheduler.js:8
postTimeHour(envHour) == orDefault(envHour, 9)

\* scheduler.js:9
postTimeMinute(envMinute) == orDefault(envMinute, 0)

\* instants are counted in ticks from midnight of day 0, local time
TicksPerDay == 24 * 60 * TicksPerMinute

\* Date.setHours(hour, minute, 0, 0) on the day of instant now
setHours(now, hour, minute) ==
  (now \div TicksPerDay) * TicksPerDay + (hour * 60 + minute) * TicksPerMinute

\* scheduler.js:73-85: today at the post time, or tomorrow when that instant
\* is not after now
calculateNextPostTime(hour, minute, now) ==
  LET nextPost == setHours(now, hour, minute)
  IN  IF nextPost <= now THEN nextPost + TicksPerDay ELSE nextPost

\* the minutes of the hour that are tried, for the post time and for now
ClockMinutes == {0, 1, 30, 59}

\* POST_TIME_HOUR and POST_TIME_MINUTE as parseInt sees them
EnvHours == {NaN} \cup 0..23

EnvMinutes == {NaN} \cup ClockMinutes

\* the instants of day 0 at which the scheduler is armed
Instants ==
  {(h * 60 + m) * TicksPerMinute + k :
     h \in 0..23, m \in ClockMinutes, k \in 0..(TicksPerMinute - 1)}

\* scheduler.js:5-14 and 56-60: a scheduler constructed under the given
\* environment is armed at instant now; out is the instant of its wake-up
\* (setTimeout is given the difference).  One construction in a behaviour.
ArmAt(envHour, envMinute, now) ==
  /\ last.op = "init"
  /\ last' = Event("arm", "scheduler", "none", <<envHour, envMinute, now>>,
                   FALSE, FALSE, FALSE,
                   <<calculateNextPostTime(postTimeHour(envHour),
                                           postTimeMinute(envMinute), now)>>)
  /\ UNCHANGED <<schedVars, postedReposFile, groupVars, taskVars>>

NextClock ==
  /\ last.op = "init"
  /\ \E envHour \in EnvHours, envMinute \in EnvMinutes, now \in Instants :
       ArmAt(envHour, envMinute, now)

SpecClock == Init /\ [][NextClock]_vars

(***************************************************************************)
(* The result of triggerManualPost (scheduler.js:98-113)                   *)
(***************************************************************************)

\* faulty variant of triggerManualPost: the result tells whether the
\* broadcast reached a group without a failed delivery
triggerManualPost_FalseOnFailure(client, out) ==
  IF ~client THEN FALSE
  ELSE /\ out # <<>>
       /\ out[1].result = "completed"
       /\ out[1].errorCount = 0

\* scheduler.js:98-113: false without a client; with one, true when the
\* awaited postToAllGroups returned (out is what it logged at its return)
\* and false when it threw (out is empty)
triggerManualPost(client, out) ==
  IF ~client THEN FALSE
  ELSE IF out = <<>> THEN FALSE
  ELSE TRUE

\* SELECTED_GROUPS is configuration (main.js:12-14): none or one group
InitTrigger ==
  /\ postedReposFile = NoFile
  /\ selectedGroupsFile = NoSelectionFile
  /\ groupsFile = NoGroupFile
  /\ SELECTED_GROUPS \in {<<>>, <<"G1">>}
  /\ run = [r \in Runs |-> IdleRun]
  /\ cmd = IdleCmd
  /\ last = NoOp
  /\ \E enabled \in BOOLEAN : scheduler = BotScheduler(enabled)
  /\ timers = NoTimers

NextTrigger ==
  \/ SetClient
  \/ \E r \in Runs, o \in Overrides, selRf \in BOOLEAN, gRf \in BOOLEAN :
       TriggerManualPost(r, o, selRf, gRf)
  \/ TriggerWithoutClient
  \/ FetchStep
  \/ RunStepSaved(SchedOutcomes)

\* manual triggers alone, with and without a client, over configurations
\* with and without a group to post to; the ledger never fails
SpecTrigger == InitTrigger /\ [][NextTrigger]_vars

(***************************************************************************)
(* Properties of broadcasts                                                *)
(***************************************************************************)

\* the step hands a message of run r to sendMessage
IssuesSend(r) == run[r].pc # "send" /\ run'[r].pc = "send"

\* some item of the message issued by run r has its record in the ledger
\* and was not delivered by run r itself: an earlier invocation delivered
\* and recorded it
Redelivers(r) ==
  \E i \in 1..Len(run'[r].reposToPost) :
    /\ HasId(ledger, run'[r].reposToPost[i].id)
    /\ run'[r].reposToPost[i].id \notin run[r].delivered

\* C1 as stated: a run never delivers an item that an earlier run delivered
\* and whose record is still in the ledger.
C1_NoRedelivery ==
  [][\A r \in Runs : IssuesSend(r) => ~Redelivers(r)]_vars

\* C1 amended: a run whose read of the ledger succeeds when it filters a
\* search result never delivers, from that result, an item that an earlier
\* run delivered and whose record is still in the ledger.
C1_NoRedeliveryWhenRead ==
  [][\A r \in Runs : (IssuesSend(r) /\ ~last'.readFails) => ~Redelivers(r)]_vars

\* a run's search returned an item that an earlier invocation delivered and
\* recorded, together with an unrecorded one; the ledger was read and only
\* the unrecorded one is sent
C1_Witness ==
  /\ last.op = "search" /\ ~last.readFails /\ ~last.failed
  /\ \E i \in 1..Len(last.items) :
       /\ HasId(ledger, last.items[i].id)
       /\ last.items[i].id \notin run[last.who].delivered
       /\ ~HasId(last.out, last.items[i].id)
  /\ run[last.who].pc = "send"
  /\ run[last.who].reposToPost = last.out

\* C3: no two ledger records share an identity.
C3_UniqueIdentities ==
  \A i, j \in 1..Len(ledger) : i # j => ledger[i].id # ledger[j].id

\* two overlapping broadcasts both delivered the same item and both saved
\* it; the ledger holds it once, before a record inserted in between
C3_Witness ==
  /\ last.op = "send" /\ ~last.failed /\ ~last.readFails /\ ~last.writeFails
  /\ \E r \in Runs : r # last.who /\ Ids(last.items) \subseteq run[r].delivered
  /\ Len(ledger) = 2
  /\ ledger[1].id \in Ids(last.items)

\* the tier after t in the fallthrough of main.js:183-197
NextTier(t) ==
  IF t = "new" THEN "trending" ELSE IF t = "trending" THEN "popular" ELSE "delay"

\* the post-dedup result of the search that the step completed: the
\* returned items whose identity the ledger view does not hold
PostDedup ==
  IF last'.failed THEN <<>>
  ELSE IF last'.readFails THEN last'.items
  ELSE Unposted(last'.items, ledger)

\* run r completed a search in this step
Searched(r) == run[r].pc \in Range(Tiers) /\ run'[r] # run[r]

SameKeyword(r) == run'[r].g = run[r].g /\ run'[r].k = run[r].k

\* C8: for each keyword the tiers are searched in the order new, trending,
\* popular, each at most once; the first non-empty post-dedup result is the
\* one sent and no later tier is searched after it.
C8_TierFallthrough ==
  [][\A r \in Runs :
       /\ Searched(r) =>
            IF Len(PostDedup) > 0
            THEN /\ run'[r].pc = "send"
                 /\ run'[r].reposToPost = PostDedup
                 /\ SameKeyword(r)
            ELSE /\ run'[r].pc = NextTier(run[r].pc)
                 /\ SameKeyword(r)
       /\ (run'[r].pc = "new" /\ run[r] # run'[r] /\ run[r].pc # "idle")
            => ~SameKeyword(r)
       /\ (run'[r].pc = "trending" /\ run[r] # run'[r]) => run[r].pc = "new"
       /\ (run'[r].pc = "popular" /\ run[r] # run'[r]) => run[r].pc = "trending"
       /\ run[r].pc = "send" => run'[r].pc \notin {"trending", "popular"}]_vars

\* the trending tier returned a recorded and an unrecorded item after the new
\* tier gave nothing: the unrecorded one is sent, popular is not searched
C8_Witness ==
  /\ last.op = "search" /\ last.tier = "trending" /\ ~last.readFails
  /\ Len(last.items) = 2 /\ Len(last.out) = 1
  /\ run[last.who].pc = "send"
  /\ run[last.who].reposToPost = last.out

\* C9: a failed search counts as an empty result of its tier: the next tier
\* is searched (after popular, the delay starts with no message sent), no
\* group failure is counted, and after the delay the run goes on with the
\* next keyword.
C9_SearchFailureFallsThrough ==
  [][\A r \in Runs :
       /\ (Searched(r) /\ last'.failed) =>
            /\ run'[r].pc = NextTier(run[r].pc)
            /\ SameKeyword(r)
            /\ run'[r].errorCount = run[r].errorCount
            /\ run'[r].successCount = run[r].successCount
            /\ postedReposFile' = postedReposFile
       /\ (run[r].pc = "delay" /\ run'[r] # run[r] /\ run[r].k < Len(KEYWORDS)) =>
            /\ run'[r].pc = "new"
            /\ run'[r].k = run[r].k + 1
            /\ run'[r].g = run[r].g
            /\ run'[r].errorCount = run[r].errorCount]_vars

\* the search failed at the popular tier, the last one: the delay follows
C9_Witness ==
  /\ last.op = "search" /\ last.failed /\ last.tier = "popular"
  /\ run[last.who].pc = "delay"
  /\ run[last.who].k < Len(KEYWORDS)
  /\ run[last.who].errorCount = 0

(***************************************************************************)
(* Properties of group resolution                                          *)
(***************************************************************************)

\* the selection stored in selected-groups.json
persisted ==
  IF selectedGroupsFile.exists THEN selectedGroupsFile.selectedGroups ELSE <<>>

\* the broadcast that just began targets exactly ids
Targets(ids) ==
  /\ run'[last'.who].pc = "new"
  /\ run'[last'.who].groupIds = ids

\* C10 as stated: a non-empty override is used; otherwise a non-empty
\* persisted selection; otherwise a non-empty configured list.
C10_Precedence ==
  [][last'.op = "begin" =>
       IF Len(last'.items) > 0 THEN Targets(last'.items)
       ELSE IF Len(persisted) > 0 THEN Targets(persisted)
       ELSE IF Len(SELECTED_GROUPS) > 0 THEN Targets(SELECTED_GROUPS)
       ELSE TRUE]_vars

\* C10 amended: as stated, where a persisted selection whose file cannot be
\* read counts as empty.
C10_PrecedenceOfReadable ==
  [][last'.op = "begin" =>
       LET readable == IF last'.readFails THEN <<>> ELSE persisted IN
       IF Len(last'.items) > 0 THEN Targets(last'.items)
       ELSE IF Len(readable) > 0 THEN Targets(readable)
       ELSE IF Len(SELECTED_GROUPS) > 0 THEN Targets(SELECTED_GROUPS)
       ELSE TRUE]_vars

\* no override, persisted selection ["G2"], configured list ["G3"]: the
\* broadcast targets ["G2"]
C10_Witness ==
  /\ last.op = "begin" /\ last.items = NoOverride /\ ~last.readFails
  /\ persisted = <<"G2">>
  /\ SELECTED_GROUPS = <<"G3">>
  /\ run[last.who].groupIds = <<"G2">>

\* the broadcast whose resolution just ended targets exactly ids: it starts
\* on them, or returns at once when ids is empty
TargetsExactly(ids) ==
  IF Len(ids) = 0
  THEN /\ run'[last'.who] = IdleRun
       /\ last'.out = Report(IdleRun, "nogroups")
  ELSE Targets(ids)

\* a broadcast begins with no override, no persisted selection and no
\* configured list
BeginsUnconfigured ==
  /\ last'.op = "begin"
  /\ Len(last'.items) = 0 /\ Len(persisted) = 0 /\ Len(SELECTED_GROUPS) = 0

destination(rs) == rs.groupIds[rs.g]

\* C12: a run given a non-empty override sends every message to a group of
\* the override, taking the groups in the override's order, whatever the
\* persisted selection, the configured list and the group cache hold.
C12_OverrideOnly ==
  [][\A r \in Runs :
       /\ (last'.op = "begin" /\ last'.who = r /\ Len(last'.items) > 0) =>
            /\ run'[r].pc = "new"
            /\ run'[r].selectedGroupIds = last'.items
       /\ (run'[r].pc = "send" /\ Len(run'[r].selectedGroupIds) > 0) =>
            /\ run'[r].g \in 1..Len(run'[r].selectedGroupIds)
            /\ destination(run'[r]) = run'[r].selectedGroupIds[run'[r].g]
       /\ (Active(run[r]) /\ Active(run'[r])) =>
            /\ run'[r].selectedGroupIds = run[r].selectedGroupIds
            /\ run'[r].g >= run[r].g]_vars

\* a run given ["G3", "G1", "G2"] is about to send to G1, its second group, while
\* the persisted selection and the configured list hold other groups
C12_Witness ==
  \E r \in Runs :
    /\ run[r].selectedGroupIds = <<"G3", "G1", "G2">>
    /\ run[r].pc = "send" /\ run[r].g = 2
    /\ destination(run[r]) = "G1"
    /\ Len(persisted) > 0 /\ persisted # run[r].selectedGroupIds
    /\ Len(SELECTED_GROUPS) > 0

Cleared == selectedGroupsFile.exists /\ Len(persisted) = 0

\* a broadcast begins with no override while the selection is cleared
BeginsCleared == last'.op = "begin" /\ Len(last'.items) = 0 /\ Cleared

\* resolution went on to all groups: it awaits the fetch, or targets the
\* list of groups.json
TargetsAllGroups ==
  \/ run'[last'.who].pc = "fetch"
  \/ groupsFile.exists /\ TargetsExactly(groupsFile.groups)

ResolvesEmpty ==
  \/ /\ last'.op = "begin" /\ Len(last'.items) = 0 /\ ~last'.failed
     /\ Len(persisted) = 0 \/ last'.readFails
     /\ Len(SELECTED_GROUPS) = 0
     /\ groupsFile.exists /\ Len(groupsFile.groups) = 0
  \/ /\ last'.op = "fetch"
     /\ last'.failed \/ last'.writeFails \/ Len(last'.items) = 0

\* C14: a broadcast whose resolution yields no group returns at once: no
\* search is started, no message is sent, the ledger is unchanged, and the
\* return is the "no groups" one, not an error.
C14_EmptyResolutionNoOp ==
  [][ResolvesEmpty =>
       /\ run'[last'.who] = IdleRun
       /\ last'.out = Report(IdleRun, "nogroups")
       /\ postedReposFile' = postedReposFile
       /\ cmd' = cmd]_vars

\* a broadcast found groups.json with an empty list and returned
C14_Witness ==
  /\ last.op = "begin" /\ ~last.failed /\ ~last.readFails
  /\ last.out = Report(IdleRun, "nogroups")
  /\ groupsFile = [exists |-> TRUE, groups |-> <<>>]
  /\ run[last.who] = IdleRun

\* the step belongs to a postToAllGroups invocation
BroadcastStep == last'.op \in {"begin", "fetch", "search", "send", "delay"}

\* C30: no step of group resolution or of a broadcast modifies the persisted
\* selection
C30_SelectionReadOnly ==
  [][BroadcastStep => selectedGroupsFile' = selectedGroupsFile]_vars

\* a broadcast resolved from a persisted selection has just ended and the
\* selection is as it was
C30_Witness ==
  /\ last.op \in {"send", "delay"}
  /\ last.out # <<>>
  /\ selectedGroupsFile.exists
  /\ selectedGroupsFile.selectedGroups # <<>>
  /\ last.out[1].groupIds = selectedGroupsFile.selectedGroups

\* no identifier occurs twice in s
NoDuplicate(s) == \A i, j \in 1..Len(s) : i # j => s[i] # s[j]

\* s without every occurrence of g, the others in their order
Without(s, g) == SelectSeq(s, LAMBDA id : id # g)

\* what an add, a remove or a clear whose write succeeded does to the
\* persisted selection: an add appends a group that was not selected or
\* changes nothing, a remove takes out one selected group and keeps the
\* others in order, a clear leaves none
SelectionStep ==
  /\ (last'.op = "selectgroup" /\ ~last'.writeFails) =>
       \/ persisted' = persisted
       \/ \E g \in Range(last'.items) \ Range(persisted) :
            persisted' = Append(persisted, g)
  /\ (last'.op = "unselectgroup" /\ ~last'.writeFails) =>
       \/ last'.failed /\ persisted' = persisted
       \/ ~last'.failed /\ \E g \in Range(persisted) : persisted' = Without(persisted, g)
  /\ (last'.op = "cleargroups" /\ ~last'.writeFails) => persisted' = <<>>

\* C31: after any sequence of add, remove and clear operations the persisted
\* selection holds no identifier twice; adding a selected group changes
\* nothing and removing a group leaves the other groups in their order
C31_SelectionIsOrderedSet ==
  [][NoDuplicate(persisted') /\ SelectionStep]_vars

\* the same for the operations whose reads of the selection file succeed
C31_SelectionIsOrderedSetWhenRead ==
  [][NoDuplicate(persisted') /\ (~last'.readFails => SelectionStep)]_vars

(***************************************************************************)
(* Properties of the group loop                                            *)
(***************************************************************************)

\* the counters of run r after the step: those of the invocation, or those
\* of its report when the step ended it
countsAfter(r) ==
  IF Active(run'[r]) THEN run'[r] ELSE last'.out[1]

\* the step ended run r after its group loop
Completes(r) ==
  /\ Active(run[r]) /\ ~Active(run'[r])
  /\ last'.op \in {"send", "delay"}

\* C15: a rejected sendMessage counts one failure for its group and the run
\* goes on with the next group; no other step counts a failure; a run that
\* went through its groups reports successes and failures that add up to
\* the number of resolved groups.
C15_GroupIsolation ==
  [][\A r \in Runs :
       /\ (last'.op = "send" /\ last'.who = r /\ last'.failed) =>
            /\ countsAfter(r).errorCount = run[r].errorCount + 1
            /\ countsAfter(r).successCount = run[r].successCount
            /\ IF run[r].g < Len(run[r].groupIds)
               THEN /\ run'[r].pc = "new"
                    /\ run'[r].g = run[r].g + 1 /\ run'[r].k = 1
                    /\ run'[r].groupIds = run[r].groupIds
               ELSE Completes(r)
       /\ (run[r].pc \in Range(Tiers) \cup {"send", "delay"} /\ run'[r] # run[r]
             /\ ~(last'.op = "send" /\ last'.failed)) =>
            countsAfter(r).errorCount = run[r].errorCount
       /\ Completes(r) =>
            /\ last'.out[1].result = "completed"
            /\ last'.out[1].groupIds = run[r].groupIds
            /\ last'.out[1].successCount + last'.out[1].errorCount
                 = Len(run[r].groupIds)]_vars

\* of three groups the first succeeded and the send to the second was
\* rejected: the run is at the third group with one success and one failure
C15_Witness ==
  /\ last.op = "send" /\ last.failed
  /\ Len(run[last.who].groupIds) = 3
  /\ run[last.who].g = 3 /\ run[last.who].pc = "new"
  /\ run[last.who].successCount = 1
  /\ run[last.who].errorCount = 1

\* run r moved to another (group, keyword) pair or ended
LeavesPair(r) == ~Active(run'[r]) \/ ~SameKeyword(r)

\* one sendMessage per (group, keyword) pair with a non-empty discovery and
\* none for a pair with an empty one: a message is issued only by the search
\* that found something, and once a pair's message is answered or its last
\* tier is empty the pair is left without another message
OneMessagePerPair(r) ==
  /\ IssuesSend(r) => (Searched(r) /\ Len(PostDedup) > 0 /\ SameKeyword(r))
  /\ (Searched(r) /\ Len(PostDedup) > 0) => IssuesSend(r)
  /\ (run[r].pc = "send" /\ run'[r] # run[r]) =>
       \/ run'[r].pc = "delay" /\ SameKeyword(r)
       \/ LeavesPair(r)
  /\ (run[r].pc = "delay" /\ run'[r] # run[r]) => LeavesPair(r)
  /\ (Searched(r) /\ Len(PostDedup) = 0 /\ run[r].pc = "popular") =>
       run'[r].pc = "delay" /\ SameKeyword(r)

\* every item of the message just delivered has exactly one ledger record
AllRecordedOnce ==
  \A i \in 1..Len(last'.items) : CountId(ledger', last'.items[i].id) = 1

SendAnswered == last'.op \in {"send", "cmdsend"}

\* C17: a record enters the ledger only in the step in which a sendMessage
\* carrying its item succeeded, on the broadcast path and on the ad-hoc
\* command paths alike; a rejected sendMessage leaves the ledger file as it
\* was.
C17_RecordedOnlyAfterDelivery ==
  [][/\ \A i \in 1..Len(ledger') :
          ~HasId(ledger, ledger'[i].id) =>
            /\ SendAnswered /\ ~last'.failed
            /\ HasId(last'.items, ledger'[i].id)
     /\ (SendAnswered /\ last'.failed) => postedReposFile' = postedReposFile
     /\ postedReposFile' # postedReposFile =>
          \/ SendAnswered /\ ~last'.failed
          \/ last'.op = "clear"]_vars

\* the message of a !searchrepo command, with two unrecorded repositories,
\* was rejected: neither is in the ledger
C17_Witness ==
  /\ last.op = "cmdsend" /\ last.tier = "searchrepo" /\ last.failed
  /\ Len(last.items) = 2
  /\ \A i \in 1..2 : ~HasId(ledger, last.items[i].id)
  /\ cmd = IdleCmd

\* the message that run r hands to sendMessage in this step holds an item
\* that the same run delivered to an earlier group
ResendsToLaterGroup(r) ==
  IssuesSend(r) /\ Ids(run'[r].reposToPost) \cap run[r].earlier # {}

\* the same, for an item whose record is in the ledger
ResendsRecorded(r) ==
  /\ IssuesSend(r)
  /\ \E id \in Ids(run'[r].reposToPost) \cap run[r].earlier : HasId(ledger, id)

\* the items of a delivered message whose saves all wrote are in the ledger
RecordsDelivered ==
  (last'.op = "send" /\ ~last'.failed /\ ~last'.writeFails)
    => \A id \in Ids(last'.items) : HasId(ledger', id)

C32_RecordedBeforeNextGroup ==
  [][RecordsDelivered]_vars

\* a run never sends to a later group an item it delivered to an earlier one
C32_NeverResends ==
  [][\A r \in Runs : ~ResendsToLaterGroup(r)]_vars

DeliveryThrows(r) == last'.op = "send" /\ last'.who = r /\ last'.failed

\* run r is no longer at the group it was at: it ended, or it is at the
\* first keyword of the next group
LeavesGroup(r) ==
  \/ Completes(r)
  \/ run'[r].g = run[r].g + 1 /\ run'[r].k = 1 /\ run'[r].pc = "new"

\* a run in progress never goes back to a group it has left
NeverGoesBack(r) ==
  (run[r].g >= 1 /\ Active(run'[r])) => run'[r].g >= run[r].g

\* C34: when a delivery to a group throws, whichever of the group's
\* keywords it was for, the run leaves the group without another search or
\* send for it and never comes back to it, the group is counted once as a
\* failure and not as a success, and the ledger keeps every record it had
C34_FailureSkipsRestOfGroup ==
  [][\A r \in Runs :
       /\ DeliveryThrows(r) =>
            /\ LeavesGroup(r)
            /\ countsAfter(r).errorCount = run[r].errorCount + 1
            /\ countsAfter(r).successCount = run[r].successCount
            /\ postedReposFile' = postedReposFile
       /\ NeverGoesBack(r)]_vars

\* the delivery for the second keyword of the first group threw: the run is
\* at the second group with one failure and no success, and the item it
\* delivered for the first keyword of the first group is still recorded
C34_Witness ==
  /\ last.op = "send" /\ last.failed
  /\ last.who \in Runs
  /\ run[last.who].g = 2 /\ run[last.who].k = 1 /\ run[last.who].pc = "new"
  /\ run[last.who].errorCount = 1 /\ run[last.who].successCount = 0
  /\ run[last.who].earlier # {}
  /\ \A id \in run[last.who].earlier : HasId(ledger, id)

(***************************************************************************)
(* Properties of error handling                                            *)
(***************************************************************************)

\* where an invocation of postToAllGroups can be: not started or returned,
\* or suspended at one of its awaits
AwaitPoints == {"idle", "fetch", "send", "delay"} \cup Range(Tiers)

\* C18: postToAllGroups always returns: an invocation is only ever idle or
\* at one of its awaits, an error thrown during resolution ends it with the
\* logged "error" return, and a step that ends a run or a group on an error
\* leaves the ledger file, with the records written so far, as it is.
C18_NeverRaises ==
  [][/\ \A r \in Runs : run'[r].pc \in AwaitPoints
     /\ (last'.op = "begin" /\ last'.failed) =>
          /\ run'[last'.who] = IdleRun
          /\ last'.out = Report(IdleRun, "error")
          /\ postedReposFile' = postedReposFile
     /\ (last'.op = "send" /\ last'.failed) =>
          /\ postedReposFile' = postedReposFile
          /\ ~Active(run'[last'.who]) => last'.out[1].result = "completed"]_vars

\* reading groups.json threw when a broadcast started, with a record of an
\* earlier broadcast in the ledger: the call returned and the record is there
C18_Witness ==
  /\ last.op = "begin" /\ last.failed
  /\ last.out = Report(IdleRun, "error")
  /\ run[last.who] = IdleRun
  /\ Len(ledger) > 0

\* C19: no failure to read or write a file ends a broadcast: a start whose
\* reads fail still resolves its groups, a fetched group list whose cache
\* write fails is still targeted, and a message whose ledger writes or reads
\* fail is still followed by the delay and the next keyword.
C19_PersistenceErrorNeverAborts ==
  [][/\ last'.op = "begin" => ~last'.failed
     /\ (last'.op = "fetch" /\ last'.writeFails) => TargetsExactly(last'.items)
     /\ (last'.op = "send" /\ ~last'.failed) =>
          /\ run'[last'.who].pc = "delay"
          /\ run'[last'.who].g = run[last'.who].g
          /\ run'[last'.who].k = run[last'.who].k
     /\ (last'.op = "search" /\ last'.readFails) =>
          /\ Active(run'[last'.who])
          /\ run'[last'.who].g = run[last'.who].g
          /\ run'[last'.who].k = run[last'.who].k]_vars

(***************************************************************************)
(* Properties of the delay                                                 *)
(***************************************************************************)

\* in this step broadcast r, already under way, begins the search of a
\* keyword (the keyword after the one it was at, or the first of the next
\* group)
BeginsKeyword(r) ==
  /\ run[r].pc \in {"new", "trending", "popular", "send", "delay"}
  /\ run'[r] # run[r]
  /\ run'[r].pc = "new"

\* the step ends the delivery attempt of a keyword of broadcast r: the
\* message was delivered, its delivery failed, or no tier gave anything
EndsAttempt(r) ==
  /\ last'.who = r
  /\ \/ last'.op = "send"
     \/ last'.op = "search" /\ last'.tier = "popular" /\ last'.out = <<>>

\* C29: after every keyword's delivery attempt, whether it delivered a
\* message, had nothing to deliver or failed to deliver, the delay is taken
\* before the next keyword's search begins (a run that ends with the attempt
\* has no next search)
C29_DelayAfterEveryAttempt ==
  [][\A r \in Runs :
       /\ BeginsKeyword(r) => run[r].pc = "delay"
       /\ EndsAttempt(r) => (run'[r].pc \in {"delay", "idle"})]_vars

\* the same for the attempts whose delivery did not fail
C29_DelayUnlessDeliveryFailed ==
  [][\A r \in Runs :
       ~(last'.op = "send" /\ last'.who = r /\ last'.failed) =>
         /\ BeginsKeyword(r) => run[r].pc = "delay"
         /\ EndsAttempt(r) => run'[r].pc = "delay"]_vars

(***************************************************************************)
(* Properties of command arguments                                         *)
(***************************************************************************)

\* the step handles a !searchrepo that has no argument
NoKeyword == last'.op = "searchrepo" /\ last'.items = <<>>

\* the step starts no search and leaves the ledger and the invocations alone
NothingDone ==
  /\ cmd' = cmd
  /\ run' = run
  /\ postedReposFile' = postedReposFile

\* C27 as stated: !searchrepo without a keyword is answered with the usage
\* message in the invoking chat, searches nothing, changes no ledger state
\* and does not raise
C27_MissingKeywordUsage ==
  [][NoKeyword => (last'.tier = "usage" /\ NothingDone)]_vars

\* C27 amended: in a group the answer is the usage message; in a private
\* chat it is the groups-only message; in both nothing else is done
C27_MissingKeywordReply ==
  [][NoKeyword =>
       /\ last'.tier = (IF last'.who = "group" THEN "usage" ELSE "groupsonly")
       /\ NothingDone]_vars

\* a !searchrepo without a keyword from a group was just answered with the
\* usage message, the ledger holding records of earlier commands
C27_Witness ==
  /\ last.op = "searchrepo" /\ last.items = <<>>
  /\ last.who = "group" /\ last.tier = "usage" /\ ~last.failed
  /\ cmd = IdleCmd
  /\ Len(ledger) > 0

(***************************************************************************)
(* Properties of overlapping broadcasts                                    *)
(***************************************************************************)

\* the step is a delivery by a broadcast whose records were all read and
\* written without error
Records ==
  /\ last'.op = "send"
  /\ ~last'.failed
  /\ ~last'.readFails
  /\ ~last'.writeFails

\* the records in the ledger that broadcast r delivered in its current
\* invocation and that are not in the message of this step
RecordsOf(r) ==
  {id \in run[r].delivered : HasId(ledger, id) /\ id \notin Ids(last'.items)}

StartsTwice ==
  /\ last.op = "start"
  /\ ~last.failed
  /\ last'.op = "start"

\* C20: when start() is called twice in a row, the first call having armed
\* the scheduler, the second call changes no scheduler state and exactly one
\* wake-up is pending after it
C20_StartTwiceSingleFlight ==
  [][StartsTwice =>
       /\ scheduler' = scheduler
       /\ timers' = timers
       /\ Cardinality(timers'.pending) = 1]_vars

\* the part of C20 about the second call alone: it changes nothing
C20_SecondStartNoOp ==
  [][StartsTwice => (scheduler' = scheduler /\ timers' = timers)]_vars
\* C21: in every reachable state at most one wake-up timer is pending
C21_AtMostOnePending == Cardinality(timers.pending) <= 1
\* the step is a timeout firing: a scheduled broadcast starts
Fires == last'.op = "begin" /\ timers'.pending # timers.pending

\* the scheduler is idle: not running and holding no timeout
Idle(s) == ~s.isRunning /\ s.timeoutId = 0

\* C22: after stop() the scheduler is idle and no wake-up is pending, and a
\* scheduled broadcast starts only while the scheduler is started (start()
\* has been called since the last stop())
C22_StopCancels ==
  [][/\ last'.op = "stop" => (Idle(scheduler') /\ timers'.pending = {})
     /\ Fires => scheduler.isRunning]_vars
\* the scheduler is running and timeout t, the one it holds, is pending
ArmedWith(t) ==
  /\ scheduler.isRunning
  /\ scheduler.timeoutId = t
  /\ t \in timers.pending

\* a callback has just resumed after its broadcast and armed a timeout later
\* than t, which the scheduler now holds
RearmedAfter(t) ==
  /\ last.op = "completed"
  /\ ~last.failed
  /\ scheduler.timeoutId > t
  /\ ArmedWith(scheduler.timeoutId)

\* C23: a timeout fires into a broadcast without a group list; and once the
\* scheduler is armed, then unless stop() is called (or no further timeout
\* can be created within MaxTimers) the timeout fires, its broadcast ends
\* and the scheduler is armed again
C23_FiresAndRearms ==
  /\ [][Fires => /\ last'.items = NoOverride
                 /\ scheduler.client
                 /\ Active(run'[last'.who]) =>
                      run'[last'.who].selectedGroupIds = NoOverride]_vars
  /\ \A t \in 1..MaxTimers :
       ArmedWith(t) ~>
         (RearmedAfter(t) \/ last.op = "stop" \/ timers.created = MaxTimers)

\* the scheduler was started once, its first timeout fired, the broadcast
\* ended and the callback armed the second timeout
C23_Witness ==
  /\ RearmedAfter(1)
  /\ timers.created = 2
  /\ timers.pending = {2}
\* the instant the step armed the wake-up for, and the instant it was armed at
ArmedFor == last'.out[1]

ArmedNow == last'.items[3]

\* the instant is the nearest one after now whose time of day is hour:minute
NextOccurrence(instant, hour, minute, now) ==
  /\ instant > now
  /\ instant - now <= TicksPerDay
  /\ instant % TicksPerDay = (hour * 60 + minute) * TicksPerMinute

\* C24: for every configured hour in 0..23 and minute in 0..59 and every
\* current time, the wake-up is set to the nearest strictly future instant at
\* the configured time of day
C24_NextOccurrence ==
  [][(last'.op = "arm" /\ last'.items[1] # NaN /\ last'.items[2] # NaN) =>
       NextOccurrence(ArmedFor, last'.items[1], last'.items[2], ArmedNow)]_vars

\* the same for every configured hour but 0
C24_NextOccurrenceHourNotZero ==
  [][(last'.op = "arm" /\ last'.items[1] \notin {NaN, 0} /\ last'.items[2] # NaN) =>
       NextOccurrence(ArmedFor, last'.items[1], last'.items[2], ArmedNow)]_vars
\* the step starts a broadcast that no timeout fired: a manual trigger
ManualBegin == last'.op = "begin" /\ last'.who \notin timers'.executing

\* a manual trigger can be made: a client is set and slot r is free
CanTrigger(r) ==
  /\ scheduler.client
  /\ ~Active(run[r])
  /\ r \notin timers.executing
  /\ ActiveCount < MaxConcurrent

\* C25: a manual trigger invokes a broadcast whatever the scheduler state is
\* (idle, armed or executing) and leaves the scheduler and its timeouts as
\* they were
C25_ManualIndependent ==
  /\ [](\A r \in Runs :
         CanTrigger(r) => ENABLED TriggerManualPost(r, NoOverride, FALSE, FALSE))
  /\ [][ManualBegin => (scheduler' = scheduler /\ timers' = timers)]_vars

\* a broadcast fired by the scheduler and a manual one, interleaved while the
\* scheduler is armed again, have both delivered the same repository
C25_Witness ==
  \E r1 \in Runs, r2 \in Runs :
    /\ r1 \in timers.executing
    /\ r2 \notin timers.executing
    /\ Active(run[r1])
    /\ Active(run[r2])
    /\ run[r1].delivered \cap run[r2].delivered # {}
\* stop() does not touch the broadcasts, and a broadcast that a timeout
\* started ends and its callback resumes (unless MaxTimers is exhausted)
RunsToCompletion ==
  /\ [][last'.op = "stop" =>
         (run' = run /\ timers'.executing = timers.executing)]_vars
  /\ \A r \in Runs :
       (last.op = "stop" /\ r \in timers.executing) ~>
         ((last.op = "completed" /\ last.who = r) \/ timers.created = MaxTimers)

\* the step is the callback resuming while the scheduler is stopped: stop()
\* was called after the timeout fired and start() has not been called since
CompletesStopped == last'.op = "completed" /\ ~scheduler.isRunning

\* C28: when stop() is called while a scheduled broadcast is executing, the
\* broadcast runs to completion, and after it the scheduler is not re-armed:
\* it stays idle and no wake-up is pending
C28_StopDuringBroadcast ==
  /\ RunsToCompletion
  /\ [][CompletesStopped => (Idle(scheduler') /\ timers'.pending = {})]_vars

\* the part of C28 that does not depend on wake-ups armed earlier: the
\* broadcast runs to completion and its callback arms nothing
C28_StopDuringBroadcastArmsNothing ==
  /\ RunsToCompletion
  /\ [][CompletesStopped => (Idle(scheduler') /\ timers'.pending = timers.pending)]_vars

\* C33: in every reachable state at most one broadcast fired by the
\* scheduler is executing
C33_OneScheduledBroadcast == Cardinality(timers.executing) <= 1

\* the step is the return of the postToAllGroups that a manual trigger
\* awaits: triggerManualPost resumes and returns in the same turn
ManualReturns(r) ==
  /\ last'.who = r
  /\ last'.op \in {"begin", "fetch", "send", "delay"}
  /\ ~Active(run'[r])
  /\ r \notin timers'.executing

\* C35: triggerManualPost without a client returns false and invokes no
\* broadcast; with a client it returns true when its broadcast ends, whatever
\* the broadcast reports (completed with failures, no groups, error)
C35_ManualPostResult ==
  [][/\ last'.op = "trigger" =>
          /\ ~triggerManualPost(scheduler.client, last'.out)
          /\ run' = run
          /\ postedReposFile' = postedReposFile
     /\ ManualBegin => scheduler.client
     /\ \A r \in Runs :
          ManualReturns(r) => triggerManualPost(scheduler.client, last'.out)]_vars

\* a manual trigger's broadcast ended with the delivery to every resolved
\* group failed, and triggerManualPost returned true
C35_Witness ==
  /\ last.op = "send" /\ last.failed
  /\ last.who \in Runs
  /\ ~Active(run[last.who])
  /\ last.who \notin timers.executing
  /\ last.out[1].successCount = 0
  /\ last.out[1].errorCount = Len(last.out[1].groupIds)
  /\ triggerManualPost(scheduler.client, last.out)

\* a manual trigger's broadcast resolved no group, and triggerManualPost
\* returned true
C35_WitnessNoGroups ==
  /\ last.op \in {"begin", "fetch"}
  /\ last.who \in Runs
  /\ ~Active(run[last.who])
  /\ last.out # <<>>
  /\ last.out[1].result = "nogroups"
  /\ triggerManualPost(scheduler.client, last.out)

\* triggerManualPost was called without a client
C35_WitnessNoClient ==
  last.op = "trigger" /\ ~scheduler.client

====
